---- MODULE Spec2Model ----
(***************************************************************************)
(* Document Generator API (src/api.py): the placeholder substitution of    *)
(* generate_document and replace_placeholders, the produce pipeline of the *)
(* six POST /generate endpoints, the retention sweep delete_old_files      *)
(* and GET /download/{filename}.                                           *)
(*                                                                         *)
(* A text is a sequence of one-character strings, so that Python's         *)
(* `in` and str.replace are modelled character by character.               *)
(***************************************************************************)
EXTENDS Integers, Sequences, FiniteSets, TLC

VARIABLES
    dir,       \* OUTPUT_DIR: the files present, each named by its creation time
    made,      \* the files the requests created, in order: [name, owner]
    nOld,       \* how many files earlier runs had left in OUTPUT_DIR
    req,       \* the POST /generate requests, by request number
    sweep,     \* the delete_old_files task each request schedules
    dl,        \* the GET /download request
    tmpl,      \* substitution: the loaded template document
    fmap,      \* substitution: the field map, in iteration order
    rendered,  \* substitution: the document after the pass
    phase      \* substitution: which pass has run

vars == <<dir, made, nOld, req, sweep, dl, tmpl, fmap, rendered, phase>>
pipeVars == <<dir, made, nOld, req, sweep, dl>>
subVars == <<tmpl, fmap, rendered, phase>>

----------------------------------------------------------------------------
(* Bounds of the model *)

MaxPieces == 2   \* pieces of text per template paragraph
MaxReq == 2      \* POST /generate requests in one run of Spec
MaxSolo == 1     \* POST /generate requests in one run of SpecSolo and SpecSeq
MaxExtra == 5    \* files beyond KeepCount the directory may start with

(* Program constants *)

KeepCount == 40  \* files[40:]

None == "None"      \* a string that is None
NoName == <<>>      \* a file name or url that is None or absent
NoBody == [name |-> <<>>, bytes |-> -1]

----------------------------------------------------------------------------
(* Text: Python str operations *)

\* s[i-1:].startswith(p)
StartsWithAt(s, p, i) ==
    /\ i + Len(p) - 1 <= Len(s)
    /\ \A j \in 1..Len(p) : s[i + j - 1] = p[j]

\* p in s, for a non-empty p
Contains(s, p) == \E i \in 1..Len(s) : StartsWithAt(s, p, i)

\* s.replace(old, new): leftmost non-overlapping occurrences, for a non-empty old
RECURSIVE StrReplaceFrom(_, _, _, _)
StrReplaceFrom(s, old, new, i) ==
    IF i > Len(s) THEN <<>>
    ELSE IF StartsWithAt(s, old, i)
         THEN new \o StrReplaceFrom(s, old, new, i + Len(old))
         ELSE <<s[i]>> \o StrReplaceFrom(s, old, new, i + 1)

\* a replace that matches any key between the braces
RECURSIVE StrReplaceAnyKeyFrom(_, _, _, _)
StrReplaceAnyKeyFrom(s, old, new, i) ==
    IF i > Len(s) THEN <<>>
    ELSE IF /\ i + Len(old) - 1 <= Len(s)
            /\ \A j \in 1..Len(old) : j # 3 => s[i + j - 1] = old[j]
         THEN new \o StrReplaceAnyKeyFrom(s, old, new, i + Len(old))
         ELSE <<s[i]>> \o StrReplaceAnyKeyFrom(s, old, new, i + 1)

StrReplaceAnyKey(s, old, new) == StrReplaceAnyKeyFrom(s, old, new, 1)

StrReplace(s, old, new) == StrReplaceFrom(s, old, new, 1)

\* f"{{{{{key}}}}}"
Placeholder(key) == <<"{", "{">> \o key \o <<"}", "}">>

\* p.text: the concatenation of the paragraph's run texts
RECURSIVE ParaTextFrom(_, _)
ParaTextFrom(runs, i) ==
    IF i > Len(runs) THEN <<>> ELSE runs[i] \o ParaTextFrom(runs, i + 1)

ParaText(runs) == ParaTextFrom(runs, 1)

----------------------------------------------------------------------------
(* generate_document: run-local substitution *)

\* for key, value in data.items(): if placeholder in run.text: run.text = replace
RECURSIVE RunApplyKeys(_, _, _)
RunApplyKeys(text, data, k) ==
    IF k > Len(data) THEN text
    ELSE LET placeholder == Placeholder(data[k][1])
         IN  RunApplyKeys(IF Contains(text, placeholder)
                          THEN StrReplace(text, placeholder, data[k][2])
                          ELSE text,
                          data, k + 1)

\* for i in range(len(inline)): ... over one top-level paragraph
BodyParagraphRunLocal(runs, data) ==
    [i \in 1..Len(runs) |-> RunApplyKeys(runs[i], data, 1)]

\* one table-cell paragraph: for key: if placeholder in paragraph.text:
\*   for run in paragraph.runs: if placeholder in run.text: replace
RECURSIVE CellParagraphRunLocal(_, _, _)
CellParagraphRunLocal(runs, data, k) ==
    IF k > Len(data) THEN runs
    ELSE LET placeholder == Placeholder(data[k][1])
         IN  CellParagraphRunLocal(
                 IF Contains(ParaText(runs), placeholder)
                 THEN [i \in 1..Len(runs) |->
                          IF Contains(runs[i], placeholder)
                          THEN StrReplace(runs[i], placeholder, data[k][2])
                          ELSE runs[i]]
                 ELSE runs,
                 data, k + 1)

\* the two loops of generate_document over doc.paragraphs and doc.tables
SubstituteRunLocal(doc, data) ==
    [paragraphs |-> [p \in 1..Len(doc.paragraphs) |->
                        BodyParagraphRunLocal(doc.paragraphs[p], data)],
     cells      |-> [c \in 1..Len(doc.cells) |->
                        CellParagraphRunLocal(doc.cells[c], data, 1)],
     error      |-> FALSE]

----------------------------------------------------------------------------
(* replace_placeholders: paragraph-level substitution *)

\* for key, value in replacements.items(): if key in text: text = text.replace
RECURSIVE TextApplyKeys(_, _, _)
TextApplyKeys(text, replacements, k) ==
    IF k > Len(replacements) THEN text
    ELSE TextApplyKeys(IF Contains(text, replacements[k][1])
                       THEN StrReplace(text, replacements[k][1], replacements[k][2])
                       ELSE text,
                       replacements, k + 1)

\* a rewrite that puts the text in the first run and clears no run
ReplaceParagraphKeepRuns(runs, replacements) ==
    LET text == TextApplyKeys(ParaText(runs), replacements, 1)
    IN  IF text # ParaText(runs)
        THEN [i \in 1..Len(runs) |-> IF i = 1 THEN text ELSE runs[i]]
        ELSE runs

\* if text != para.text: clear every run, para.runs[0].text = text
ReplaceParagraph(runs, replacements) ==
    LET text == TextApplyKeys(ParaText(runs), replacements, 1)
    IN  IF text # ParaText(runs)
        THEN [i \in 1..Len(runs) |-> IF i = 1 THEN text ELSE <<>>]
        ELSE runs

\* para.runs[0] raises IndexError on a changed paragraph without runs
ReplaceParagraphRaises(runs, replacements) ==
    /\ TextApplyKeys(ParaText(runs), replacements, 1) # ParaText(runs)
    /\ Len(runs) = 0

replace_placeholders(doc, replacements) ==
    [paragraphs |-> [p \in 1..Len(doc.paragraphs) |->
                        ReplaceParagraph(doc.paragraphs[p], replacements)],
     cells      |-> [c \in 1..Len(doc.cells) |->
                        ReplaceParagraph(doc.cells[c], replacements)],
     error      |-> \/ \E p \in 1..Len(doc.paragraphs) :
                          ReplaceParagraphRaises(doc.paragraphs[p], replacements)
                    \/ \E c \in 1..Len(doc.cells) :
                          ReplaceParagraphRaises(doc.cells[c], replacements)]

\* replacements = {"{{NAME}}": name, ...}: the keys carry their braces
CertificateReplacements(data) ==
    [k \in 1..Len(data) |-> <<Placeholder(data[k][1]), data[k][2]>>]

----------------------------------------------------------------------------
(* Substitution inputs: templates and field maps *)

TokA == Placeholder(<<"A">>)
TokB == Placeholder(<<"B">>)
TokK == Placeholder(<<"K">>)

\* keys a field map may hold; K is a token no field map has a key for
Keys == {<<"A">>, <<"B">>}
AllKeys == Keys \cup {<<"K">>}
Values == {<<>>, <<"X">>, TokB}

\* text a template author types; "{{A" and "}}" are the halves of a split token
Pieces == {TokA, TokB, TokK, <<"{", "{", "A">>, <<"}", "}">>, <<"x">>}

PieceSeqs == UNION {[1..n -> Pieces] : n \in 0..MaxPieces}

\* the runs of a paragraph typed as ps with a style change after the pieces in cuts
RECURSIVE Group(_, _, _, _)
Group(ps, cuts, i, cur) ==
    IF i > Len(ps) THEN <<>>
    ELSE LET c == cur \o ps[i]
         IN  IF i = Len(ps) \/ i \in cuts
             THEN <<c>> \o Group(ps, cuts, i + 1, <<>>)
             ELSE Group(ps, cuts, i + 1, c)

Paragraphs ==
    UNION {{Group(ps, cuts, 1, <<>>) : cuts \in SUBSET (1..(Len(ps) - 1))} :
           ps \in PieceSeqs}

\* a document with one paragraph, top-level or in a table cell
Templates ==
    {[paragraphs |-> <<p>>, cells |-> <<>>] : p \in Paragraphs}
    \cup {[paragraphs |-> <<>>, cells |-> <<p>>] : p \in Paragraphs}

\* dicts in insertion order, keys distinct
FieldMaps ==
    {<<>>}
    \cup {<<<<k, v>>>> : k \in Keys, v \in Values}
    \cup {m \in {<<<<k1, v1>>, <<k2, v2>>>> :
                      k1 \in Keys, k2 \in Keys, v1 \in Values, v2 \in Values} :
              m[1][1] # m[2][1]}

NoDoc == [paragraphs |-> <<>>, cells |-> <<>>, error |-> FALSE]
NoTemplate == [paragraphs |-> <<>>, cells |-> <<>>]

SubInit ==
    /\ tmpl \in Templates
    /\ fmap \in FieldMaps
    /\ rendered = NoDoc
    /\ phase = "loaded"

SubIdle ==
    /\ tmpl = NoTemplate
    /\ fmap = <<>>
    /\ rendered = NoDoc
    /\ phase = "off"

\* generate_document's substitution over the loaded template
RunLocalPass ==
    /\ phase = "loaded"
    /\ rendered' = SubstituteRunLocal(tmpl, fmap)
    /\ phase' = "run_local"
    /\ UNCHANGED <<tmpl, fmap, pipeVars>>

\* generate_certificate's substitution over the loaded template
ParagraphPass ==
    /\ phase = "loaded"
    /\ rendered' = replace_placeholders(tmpl, CertificateReplacements(fmap))
    /\ phase' = "paragraph"
    /\ UNCHANGED <<tmpl, fmap, pipeVars>>

NextSub == RunLocalPass \/ ParagraphPass

----------------------------------------------------------------------------
(* The artifact directory OUTPUT_DIR                                        *)
(*                                                                         *)
(* Creation times are distinct, so the model writes a file as the number   *)
(* of its creation time: files 1..nOld were left by earlier runs, file      *)
(* nOld + j is the j-th file the requests created. A listing holds file     *)
(* names; the model writes a listed name as the number of the file that    *)
(* carried it, and every use of it goes through the name (NameOf).         *)

Kinds == {"offer", "termination", "certificate", "aiml", "webdev", "graphic"}
DocKinds == Kinds \ {"certificate"}

\* output_prefix of each endpoint
Prefix(kind) ==
    CASE kind = "offer"       -> "offer_letter"
      [] kind = "termination" -> "termination_letter"
      [] kind = "certificate" -> "certificate"
      [] kind = "aiml"        -> "aiml_experience_letter"
      [] kind = "webdev"      -> "webdev_experience_letter"
      [] kind = "graphic"     -> "graphic_design_experience_letter"

\* f"{output_prefix}_{unique_id}.docx", f"{output_prefix}_{unique_id}.pdf"
FileName(prefix, unique_id, ext) == <<prefix, unique_id, ext>>
DocxName(kind, unique_id) == FileName(Prefix(kind), unique_id, "docx")
PdfName(kind, unique_id) == FileName(Prefix(kind), unique_id, "pdf")

Requests == 1..MaxReq

\* the i-th file left by earlier runs: document (i + 1) \div 2, its docx then
\* its pdf; the ids of these documents are not drawn again
OldFile(i) ==
    FileName("offer_letter", 100 + ((i + 1) \div 2),
             IF i % 2 = 1 THEN "docx" ELSE "pdf")

\* the creation-time counter of the filesystem
Clock == nOld + Len(made)

NameOf(c) == IF c <= nOld THEN OldFile(c) ELSE made[c - nOld].name

\* who wrote the bytes of file c: a request, or 0 for an earlier run
BytesOf(c) == IF c <= nOld THEN 0 ELSE made[c - nOld].owner

\* os.path.exists(path), os.path.isfile(path): the directory holds regular files
Exists(name) == \E c \in dir : NameOf(c) = name

\* os.path.getctime(path), for a path that exists
CtimeOf(name) == CHOOSE c \in dir : NameOf(c) = name

\* open(path, "wb") and the write: a new name gets the next creation time; an
\* existing file is overwritten in place and keeps its creation time
WriteFile(name, owner) ==
    IF Exists(name)
    THEN /\ dir' = dir
         /\ made' = IF CtimeOf(name) > nOld
                    THEN [made EXCEPT ![CtimeOf(name) - nOld].owner = owner]
                    ELSE made
    ELSE /\ dir' = dir \cup {Clock + 1}
         /\ made' = Append(made, [name |-> name, owner |-> owner])


\* a listed name, written as the file c that carried it, is in the directory:
\* a file that is present carries its name, and no two files share one
Present(c) == c \in dir \/ Exists(NameOf(c))

\* the file that carries the listed name now
Current(c) == IF c \in dir THEN c ELSE CtimeOf(NameOf(c))

\* the listed names by creation time, from time t down to 1
RECURSIVE NewestFirstFrom(_, _, _)
NewestFirstFrom(listed, gone, t) ==
    IF t = 0 THEN <<>>
    ELSE LET at == IF t \in listed /\ t \in dir THEN {t}
                   ELSE {c \in gone : Current(c) = t}
         IN  (IF at = {} THEN <<>> ELSE <<CHOOSE c \in at : TRUE>>)
             \o NewestFirstFrom(listed, gone, t - 1)

\* the listed names by creation time, from time t up to Clock
RECURSIVE OldestFirstFrom(_, _, _)
OldestFirstFrom(listed, gone, t) ==
    IF t > Clock THEN <<>>
    ELSE LET at == IF t \in listed /\ t \in dir THEN {t}
                   ELSE {c \in gone : Current(c) = t}
         IN  (IF at = {} THEN <<>> ELSE <<CHOOSE c \in at : TRUE>>)
             \o OldestFirstFrom(listed, gone, t + 1)

\* a sort that puts the oldest first
SortOldestFirst(listed) == OldestFirstFrom(listed, listed \ dir, 1)

\* files.sort(key=os.path.getctime, reverse=True), every listed name present
SortNewestFirst(listed) == NewestFirstFrom(listed, listed \ dir, Clock)

\* os.remove(path), for a listed name that is present
RemoveFile(c) == dir' = dir \ {Current(c)} /\ made' = made

\* files[40:] starts at this position (1-based)
FirstOld == KeepCount + 1

----------------------------------------------------------------------------
(* State of the requests *)

NoResponse == [status |-> 0, success |-> FALSE, docx_url |-> NoName,
               pdf_url |-> NoName, warning |-> None, detail |-> None]

NoResult == [docx_filename |-> NoName, pdf_filename |-> NoName, warning |-> None]

IdleRequest == [pc |-> "idle", kind |-> None, unique_id |-> 0,
                template |-> "unchecked", convert |-> "not_run",
                result |-> NoResult, response |-> NoResponse]

NoSweep == [pc |-> "none", listed |-> {}, files |-> <<>>, i |-> 0,
            err |-> None]

IdleDownload == [pc |-> "idle", filename |-> NoName, status |-> 0,
                 body |-> NoBody, media_type |-> None]

\* f"/download/{filename}"
Url(filename) == <<"/download", filename>>

\* raise HTTPException(status_code=500, detail=...)
Error500(detail) == [NoResponse EXCEPT !.status = 500, !.detail = detail]

PdfWarning == "PDF conversion failed, only DOCX is available"

PipeInit(sizes) ==
    /\ nOld \in sizes
    /\ dir = 1..nOld
    /\ made = <<>>
    /\ req = [r \in Requests |-> IdleRequest]
    /\ sweep = [r \in Requests |-> NoSweep]
    /\ dl = IdleDownload

\* the endpoints are `async def` without an await: the event loop runs one
\* handler to its return before it starts the next
HandlerFree == \A r \in Requests : req[r].pc \in {"idle", "done"}

\* requests are numbered in the order they arrive
NextToArrive(r) == IF r = 1 THEN TRUE ELSE req[r - 1].pc # "idle"

\* str(uuid.uuid4())[:8] is a value an earlier request drew or a new one; the
\* values are numbered in the order they are first drawn
UsedIds == {req[q].unique_id : q \in {p \in Requests : req[p].pc # "idle"}}
IdChoices == UsedIds \cup {Cardinality(UsedIds) + 1}

----------------------------------------------------------------------------
(* generate_document and the five endpoints built on it *)

Finish(r, response) ==
    req' = [req EXCEPT ![r].pc = "done", ![r].response = response]

\* the endpoint is entered; generate_document draws unique_id and builds its paths
GdStart(r, kind, unique_id) ==
    /\ req[r].pc = "idle"
    /\ NextToArrive(r)
    /\ HandlerFree
    /\ unique_id \in IdChoices
    /\ req' = [req EXCEPT ![r].pc = "exists", ![r].kind = kind,
                          ![r].unique_id = unique_id]
    /\ UNCHANGED <<dir, made, nOld, sweep, dl, subVars>>

\* a generate_document that goes on without looking for the template
GdTemplateUnchecked(r) ==
    /\ req[r].pc = "exists"
    /\ \E exists \in BOOLEAN :
          req' = [req EXCEPT ![r].pc = "render",
                             ![r].template = IF exists THEN "exists" ELSE "missing"]
    /\ UNCHANGED <<dir, made, nOld, sweep, dl, subVars>>

\* if not os.path.exists(template_path): raise HTTPException(500, ...), which
\* the endpoint's except clause turns into its own HTTPException(500, str(e))
GdTemplateCheck(r) ==
    /\ req[r].pc = "exists"
    /\ \E exists \in BOOLEAN :
          IF exists
          THEN req' = [req EXCEPT ![r].pc = "render", ![r].template = "exists"]
          ELSE req' = [req EXCEPT ![r].pc = "done", ![r].template = "missing",
                                  ![r].response = Error500("Template file not found")]
    /\ UNCHANGED <<dir, made, nOld, sweep, dl, subVars>>

\* Document(template_path), the substitution loops, doc.save(docx_path); an
\* exception of any of them becomes HTTPException(500, "Document generation failed")
GdRenderSave(r) ==
    /\ req[r].pc = "render"
    /\ \E saved \in BOOLEAN :
          IF saved
          THEN /\ WriteFile(DocxName(req[r].kind, req[r].unique_id), r)
               /\ req' = [req EXCEPT ![r].pc = "convert"]
          ELSE /\ Finish(r, Error500("Document generation failed"))
               /\ UNCHANGED <<dir, made>>
    /\ UNCHANGED <<nOld, sweep, dl, subVars>>

\* a generate_document that lets the converter's exception escape
GdConvertRaises(r) ==
    /\ req[r].pc = "convert"
    /\ LET docx == DocxName(req[r].kind, req[r].unique_id)
           pdf  == PdfName(req[r].kind, req[r].unique_id)
       IN  \E converts \in BOOLEAN :
              IF converts /\ Exists(docx)
              THEN /\ WriteFile(pdf, r)
                   /\ req' = [req EXCEPT ![r].pc = "return", ![r].convert = "ok",
                                 ![r].result = [docx_filename |-> docx,
                                                pdf_filename |-> pdf,
                                                warning |-> None]]
              ELSE /\ req' = [req EXCEPT ![r].pc = "done", ![r].convert = "failed",
                                 ![r].response = Error500("Document generation failed")]
                   /\ UNCHANGED <<dir, made>>
    /\ UNCHANGED <<nOld, sweep, dl, subVars>>

\* try: convert(docx_path, pdf_path) except: return the docx alone with a
\* warning; the converter fails at will, and always on a docx that is gone
GdConvert(r) ==
    /\ req[r].pc = "convert"
    /\ LET docx == DocxName(req[r].kind, req[r].unique_id)
           pdf  == PdfName(req[r].kind, req[r].unique_id)
       IN  \E converts \in BOOLEAN :
              IF converts /\ Exists(docx)
              THEN /\ WriteFile(pdf, r)
                   /\ req' = [req EXCEPT ![r].pc = "return", ![r].convert = "ok",
                                 ![r].result = [docx_filename |-> docx,
                                                pdf_filename |-> pdf,
                                                warning |-> None]]
              ELSE /\ req' = [req EXCEPT ![r].pc = "return", ![r].convert = "failed",
                                 ![r].result = [docx_filename |-> docx,
                                                pdf_filename |-> NoName,
                                                warning |-> PdfWarning]]
                   /\ UNCHANGED <<dir, made>>
    /\ UNCHANGED <<nOld, sweep, dl, subVars>>

\* background_tasks.add_task(delete_old_files)
Schedule(r) == sweep' = [sweep EXCEPT ![r].pc = "scheduled"]

\* cleanup_old_files(background_tasks), then the response dict of the endpoint
GdRespond(r) ==
    /\ req[r].pc = "return"
    /\ req[r].kind \in DocKinds
    /\ Schedule(r)
    /\ LET result == req[r].result
       IN  Finish(r, [status   |-> 200,
                      success  |-> TRUE,
                      docx_url |-> Url(result.docx_filename),
                      pdf_url  |-> IF result.pdf_filename # NoName
                                   THEN Url(result.pdf_filename) ELSE NoName,
                      warning  |-> result.warning,
                      detail   |-> None])
    /\ UNCHANGED <<dir, made, nOld, dl, subVars>>

----------------------------------------------------------------------------
(* generate_certificate_endpoint and generate_certificate *)

\* the endpoint is entered and draws unique_id
CertStart(r, unique_id) ==
    /\ req[r].pc = "idle"
    /\ NextToArrive(r)
    /\ HandlerFree
    /\ unique_id \in IdChoices
    /\ req' = [req EXCEPT ![r].pc = "cert_pdf", ![r].kind = "certificate",
                          ![r].unique_id = unique_id]
    /\ UNCHANGED <<dir, made, nOld, sweep, dl, subVars>>

\* generate_certificate: Document(template_path), replace_placeholders, a
\* temporary docx outside OUTPUT_DIR, convert(temp_docx, output_pdf) without a
\* try; any exception reaches the endpoint's except clause
CertGenerate(r) ==
    /\ req[r].pc = "cert_pdf"
    /\ \E outcome \in {"no_template", "converted", "convert_raises"} :
          CASE outcome = "no_template" ->
                  /\ req' = [req EXCEPT ![r].pc = "done", ![r].template = "missing",
                                ![r].response = Error500("Package not found")]
                  /\ UNCHANGED <<dir, made>>
            [] outcome = "converted" ->
                  /\ WriteFile(PdfName("certificate", req[r].unique_id), r)
                  /\ req' = [req EXCEPT ![r].pc = "cert_docx", ![r].template = "exists",
                                        ![r].convert = "ok"]
            [] outcome = "convert_raises" ->
                  /\ req' = [req EXCEPT ![r].pc = "done", ![r].template = "exists",
                                ![r].convert = "failed",
                                ![r].response = Error500("conversion failed")]
                  /\ UNCHANGED <<dir, made>>
    /\ UNCHANGED <<nOld, sweep, dl, subVars>>

\* Document(template_path) again, replace_placeholders, doc.save(docx_path)
CertSaveDocx(r) ==
    /\ req[r].pc = "cert_docx"
    /\ \E saved \in BOOLEAN :
          IF saved
          THEN /\ WriteFile(DocxName("certificate", req[r].unique_id), r)
               /\ req' = [req EXCEPT ![r].pc = "return"]
          ELSE /\ Finish(r, Error500("save failed"))
               /\ UNCHANGED <<dir, made>>
    /\ UNCHANGED <<nOld, sweep, dl, subVars>>

\* cleanup_old_files(background_tasks), then the response with both urls
CertRespond(r) ==
    /\ req[r].pc = "return"
    /\ req[r].kind = "certificate"
    /\ Schedule(r)
    /\ Finish(r, [status   |-> 200,
                  success  |-> TRUE,
                  docx_url |-> Url(DocxName("certificate", req[r].unique_id)),
                  pdf_url  |-> Url(PdfName("certificate", req[r].unique_id)),
                  warning  |-> None,
                  detail   |-> None])
    /\ UNCHANGED <<dir, made, nOld, dl, subVars>>

----------------------------------------------------------------------------
(* delete_old_files: the task cleanup_old_files schedules; it runs in the   *)
(* thread pool after the response, beside the handlers and other sweeps    *)

\* the sweep's position moves past files[i]
Advance(s) ==
    IF sweep[s].i + 1 > Len(sweep[s].files)
    THEN [sweep EXCEPT ![s].pc = "done", ![s].i = @ + 1]
    ELSE [sweep EXCEPT ![s].pc = "isfile", ![s].i = @ + 1]

\* except Exception: the error is logged and the task ends
Abort(s, err) == [sweep EXCEPT ![s].pc = "failed", ![s].err = err]

\* files = [... for f in os.listdir(OUTPUT_DIR)]
SweepListdir(s) ==
    /\ sweep[s].pc = "scheduled"
    /\ sweep' = [sweep EXCEPT ![s].pc = "sort", ![s].listed = dir]
    /\ UNCHANGED <<dir, made, nOld, req, dl, subVars>>

\* the order in which delete_old_files walks the listing
SortedListing(listed) == SortNewestFirst(listed)

\* files.sort(key=os.path.getctime, reverse=True): getctime raises on a name
\* that is gone; then the loop over files[40:] starts
SweepSort(s) ==
    /\ sweep[s].pc = "sort"
    /\ IF \A c \in sweep[s].listed : Present(c)
       THEN LET files == SortedListing(sweep[s].listed)
            IN  sweep' = [sweep EXCEPT
                             ![s].files = files,
                             ![s].i = FirstOld,
                             ![s].pc = IF FirstOld > Len(files)
                                       THEN "done" ELSE "isfile"]
       ELSE sweep' = Abort(s, "missing")
    /\ UNCHANGED <<dir, made, nOld, req, dl, subVars>>

\* if os.path.isfile(old_file)
SweepIsFile(s) ==
    /\ sweep[s].pc = "isfile"
    /\ sweep' = IF Present(sweep[s].files[sweep[s].i])
                THEN [sweep EXCEPT ![s].pc = "remove"]
                ELSE Advance(s)
    /\ UNCHANGED <<dir, made, nOld, req, dl, subVars>>

\* os.remove(old_file): raises when the file is gone or locked
SweepRemove(s) ==
    /\ sweep[s].pc = "remove"
    /\ LET old_file == sweep[s].files[sweep[s].i]
       IN  \E locked \in BOOLEAN :
              IF ~Present(old_file)
              THEN sweep' = Abort(s, "missing") /\ UNCHANGED <<dir, made>>
              ELSE IF locked
              THEN sweep' = Abort(s, "locked") /\ UNCHANGED <<dir, made>>
              ELSE sweep' = Advance(s) /\ RemoveFile(old_file)
    /\ UNCHANGED <<nOld, req, dl, subVars>>

----------------------------------------------------------------------------
(* GET /download/{filename} *)

\* the file names a client asks for: the oldest file of earlier runs, which
\* is there or not, and the docx the first request was told
Asked ==
    {OldFile(1)}
    \cup (IF req[1].response.docx_url # NoName
          THEN {req[1].response.docx_url[2]} ELSE {})

ContentType(filename) ==
    IF filename[3] = "docx"
    THEN "application/vnd.openxmlformats-officedocument.wordprocessingml.document"
    ELSE "application/pdf"

\* a download_file that builds the FileResponse without looking for the file
DownloadUnchecked(filename) ==
    /\ dl.pc = "idle"
    /\ filename \in Asked
    /\ dl' = [dl EXCEPT !.pc = "send", !.filename = filename]
    /\ UNCHANGED <<dir, made, nOld, req, sweep, subVars>>

\* if not os.path.exists(file_path): raise HTTPException(404); else the
\* handler returns a FileResponse for the path
DownloadCheck(filename) ==
    /\ dl.pc = "idle"
    /\ filename \in Asked
    /\ dl' = IF Exists(filename)
             THEN [dl EXCEPT !.pc = "send", !.filename = filename]
             ELSE [dl EXCEPT !.pc = "done", !.filename = filename, !.status = 404]
    /\ UNCHANGED <<dir, made, nOld, req, sweep, subVars>>

\* the FileResponse is sent after the handler returned: it stats the path,
\* fails (500) when the file is gone, and streams the file's bytes otherwise
DownloadSend ==
    /\ dl.pc = "send"
    /\ dl' = IF Exists(dl.filename)
             THEN [dl EXCEPT !.pc = "done", !.status = 200,
                             !.body = [name |-> dl.filename,
                                       bytes |-> BytesOf(CtimeOf(dl.filename))],
                             !.media_type = ContentType(dl.filename)]
             ELSE [dl EXCEPT !.pc = "done", !.status = 500]
    /\ UNCHANGED <<dir, made, nOld, req, sweep, subVars>>

----------------------------------------------------------------------------
(* Specifications *)

RequestStep(r) ==
    \/ \E kind \in DocKinds, unique_id \in 1..MaxReq : GdStart(r, kind, unique_id)
    \/ GdTemplateCheck(r)
    \/ GdRenderSave(r)
    \/ GdConvert(r)
    \/ GdRespond(r)
    \/ \E unique_id \in 1..MaxReq : CertStart(r, unique_id)
    \/ CertGenerate(r)
    \/ CertSaveDocx(r)
    \/ CertRespond(r)

SweepStep(s) ==
    \/ SweepListdir(s)
    \/ SweepSort(s)
    \/ SweepIsFile(s)
    \/ SweepRemove(s)

DownloadStep ==
    \/ \E filename \in Asked : DownloadCheck(filename)
    \/ DownloadSend

\* Spec: handlers one at a time on the event loop, sweeps and the sending of
\* a download beside them; the directory starts empty or at the retention count
InitSizes == {0, KeepCount}

Init == PipeInit(InitSizes) /\ SubIdle

Next ==
    \/ \E r \in Requests : RequestStep(r)
    \/ \E s \in Requests : SweepStep(s)
    \/ DownloadStep

Spec == Init /\ [][Next]_vars

\* SpecSolo: as Spec, with MaxSolo requests
Solo == 1..MaxSolo

NextSolo ==
    \/ \E r \in Solo : RequestStep(r)
    \/ \E s \in Solo : SweepStep(s)
    \/ DownloadStep

SpecSolo == Init /\ [][NextSolo]_vars

\* SpecSeq: MaxSolo requests, and every request and every sweep runs alone,
\* from start to end; the directory starts with up to KeepCount + MaxExtra files
InitSizesSeq == {0} \cup ((KeepCount - 1)..(KeepCount + MaxExtra))

SweepRunning(s) == sweep[s].pc \in {"sort", "isfile", "remove"}

InitSeq == PipeInit(InitSizesSeq) /\ SubIdle

NextSeq ==
    \/ \E r \in Solo :
          /\ \A s \in Requests : ~SweepRunning(s)
          /\ RequestStep(r)
    \/ \E s \in Solo :
          /\ HandlerFree
          /\ \A t \in Requests \ {s} : ~SweepRunning(t)
          /\ SweepStep(s)

SpecSeq == InitSeq /\ [][NextSeq]_vars

\* SpecSub: one substitution pass over a template and a field map
InitSub == PipeInit({0}) /\ SubInit

SpecSub == InitSub /\ [][NextSub]_vars

----------------------------------------------------------------------------
(* Properties of the substitution passes (SpecSub) *)

\* the paragraphs of a document, top-level first, then those of the table cells
AllParagraphs(doc) == doc.paragraphs \o doc.cells

PassDone == phase \in {"run_local", "paragraph"}

\* the number of places where p occurs in s
Count(s, p) == Cardinality({i \in 1..Len(s) : StartsWithAt(s, p, i)})

HasKey(data, key) == \E k \in 1..Len(data) : data[k][1] = key

\* C1: with the field map {A: "{{B}}", B: "X"}, iterated in that order, a run
\* or paragraph whose text is {{A}}{{B}} is rendered as {{B}}X by either pass:
\* the value written for A is not substituted again for B.
C1_ValueNotResubstituted ==
    (/\ PassDone
     /\ fmap = << <<(<<"A">>), TokB>>, <<(<<"B">>), (<<"X">>)>> >>
     /\ AllParagraphs(tmpl) = << <<TokA \o TokB>> >>)
    => AllParagraphs(rendered) = << <<TokB \o <<"X">>>> >>

\* C7: after either pass, in top-level paragraphs and in table cells, every
\* token {{K}} of a key K the field map does not hold is still there: each
\* paragraph (and, for the run-local pass, each run) holds at least the
\* occurrences of {{K}} it held in the template, and no error is raised.
C7_AbsentKeyTokensKept ==
    PassDone =>
        /\ ~rendered.error
        /\ Len(AllParagraphs(rendered)) = Len(AllParagraphs(tmpl))
        /\ \A key \in {k \in AllKeys : ~HasKey(fmap, k)} :
           \A p \in 1..Len(AllParagraphs(tmpl)) :
              LET before == AllParagraphs(tmpl)[p]
                  after  == AllParagraphs(rendered)[p]
              IN  /\ Len(after) = Len(before)
                  /\ Count(ParaText(after), Placeholder(key))
                        >= Count(ParaText(before), Placeholder(key))
                  /\ phase = "run_local" =>
                        \A i \in 1..Len(before) :
                           Count(after[i], Placeholder(key))
                              >= Count(before[i], Placeholder(key))

\* C7 witness: the paragraph-level pass rewrote a table-cell paragraph that
\* holds {{K}} beside the token of a key of the field map.
C7_Witness ==
    /\ phase = "paragraph"
    /\ HasKey(fmap, <<"A">>)
    /\ Len(tmpl.cells) = 1
    /\ Contains(ParaText(tmpl.cells[1]), TokK)
    /\ Contains(ParaText(tmpl.cells[1]), TokA)
    /\ rendered.cells[1] # tmpl.cells[1]
    /\ Contains(ParaText(rendered.cells[1]), TokK)

----------------------------------------------------------------------------
(* Properties of the retention sweep (SpecSeq, Spec) *)

Min(a, b) == IF a <= b THEN a ELSE b

\* the k files of a listing with the latest creation times
Newest(listed, k) == {c \in listed : Cardinality({d \in listed : d > c}) < k}

\* this step is the last of sweep s, and the sweep met no error
SweepCompletes(s) ==
    sweep[s].pc \in {"sort", "isfile", "remove"} /\ sweep'[s].pc = "done"

SweepEnded(s) == sweep[s].pc \in {"done", "failed"}

Started(r) == req[r].pc # "idle"

\* C2: a sweep that runs alone and ends without an error, on a directory of n
\* files, leaves min(n, 40) files, and they are the 40 newest by creation time.
C2_SweepKeepsNewest ==
    [][\A s \in Requests :
          SweepCompletes(s) =>
              /\ dir' = Newest(sweep[s].listed, KeepCount)
              /\ Cardinality(dir') = Min(Cardinality(sweep[s].listed), KeepCount)]_vars

\* C2 witness: a sweep over 46 files has ended; the 6 oldest are gone and the
\* 40 newest are there.
C2_Witness ==
    \E s \in Requests :
       /\ sweep[s].pc = "done"
       /\ sweep[s].listed = 1..(KeepCount + 6)
       /\ dir = 7..(KeepCount + 6)

\* C3: a deletion that fails does not end the sweep: once the sweep is over,
\* every file beyond the 40 newest of its listing, other than the one whose
\* deletion failed, is deleted.
C3_FailureDoesNotAbortSweep ==
    \A s \in Requests :
       SweepEnded(s) =>
          \A i \in FirstOld..Len(sweep[s].files) :
             (sweep[s].pc = "done" \/ i # sweep[s].i) => sweep[s].files[i] \notin dir

\* C9: once every request that arrived has succeeded and every sweep they
\* scheduled has ended, no deletion having failed on a locked file, the
\* directory holds at most 40 files.
C9_DirectoryCapped ==
    (/\ \E r \in Requests : Started(r)
     /\ \A r \in Requests :
           Started(r) => (req[r].pc = "done" /\ req[r].response.status = 200)
     /\ \A s \in Requests : sweep[s].pc \in {"none", "done", "failed"}
     /\ \A s \in Requests : sweep[s].err # "locked")
    => Cardinality(dir) <= KeepCount

----------------------------------------------------------------------------
(* Properties of the produce pipeline (SpecSolo, Spec) *)

TheDocx(r) == DocxName(req[r].kind, req[r].unique_id)

\* C4: when the converter raises in generate_document, the call returns the
\* docx filename with pdf_filename None and a warning, the docx is in the
\* directory when it returns, and the endpoint answers success: true with
\* docx_url and warning and without pdf_url.
C4_ConversionFailureIsAWarning ==
    \A r \in Requests :
       (req[r].kind \in DocKinds /\ req[r].convert = "failed") =>
          /\ req[r].pc \in {"return", "done"}
          /\ req[r].result = [docx_filename |-> TheDocx(r),
                              pdf_filename  |-> NoName,
                              warning       |-> PdfWarning]
          /\ req[r].pc = "return" => Exists(TheDocx(r))
          /\ req[r].pc = "done" =>
                req[r].response = [status   |-> 200,
                                   success  |-> TRUE,
                                   docx_url |-> Url(TheDocx(r)),
                                   pdf_url  |-> NoName,
                                   warning  |-> PdfWarning,
                                   detail   |-> None]

\* C4 witness: an experience-letter request whose conversion failed has been
\* answered, and its docx is in the directory.
C4_Witness ==
    \E r \in Requests :
       /\ req[r].kind = "aiml"
       /\ req[r].convert = "failed"
       /\ req[r].pc = "done"
       /\ Exists(TheDocx(r))

\* C5: when the converter fails in a certificate request, the request still
\* succeeds: the certificate docx is in the directory and returned as
\* docx_url, with a warning and without pdf_url.
C5_CertificateSurvivesConversionFailure ==
    \A r \in Requests :
       (req[r].kind = "certificate" /\ req[r].convert = "failed"
           /\ req[r].pc = "done") =>
          /\ req[r].response.status = 200
          /\ req[r].response.success
          /\ req[r].response.docx_url = Url(TheDocx(r))
          /\ req[r].response.pdf_url = NoName
          /\ req[r].response.warning # None
          /\ \E j \in 1..Len(made) : made[j].name = TheDocx(r)

\* C6: no two produce calls are assigned the same primary artifact filename.
C6_PrimaryNamesDistinct ==
    \A r1 \in Requests, r2 \in Requests :
       (r1 # r2 /\ Started(r1) /\ Started(r2)) => TheDocx(r1) # TheDocx(r2)

C10_MissingTemplateFailsFirst ==
    [][\A r \in Requests :
          (req'[r].kind \in DocKinds /\ req'[r].template = "missing") =>
              /\ req'[r].pc = "done"
              /\ req'[r].response = Error500("Template file not found")
              /\ sweep'[r].pc = "none"
              /\ \A j \in 1..Len(made') : made'[j].owner # r
              /\ req'[r] # req[r] => (dir' = dir /\ made' = made)]_vars

\* C10 witness: a termination-letter request found no template and was answered.
C10_Witness ==
    \E r \in Requests :
       /\ req[r].kind = "termination"
       /\ req[r].template = "missing"
       /\ req[r].pc = "done"
       /\ req[r].response.status = 500

----------------------------------------------------------------------------
(* Properties of the paragraph-level pass (SpecSub) *)

\* the text holds the token of a key of the field map
HasMapToken(text, data) ==
    \E k \in 1..Len(data) : Contains(text, Placeholder(data[k][1]))

\* the first run carries the whole text of the paragraph, the other runs are empty
Collapsed(runs) ==
    /\ Len(runs) >= 1
    /\ runs[1] = ParaText(runs)
    /\ \A i \in 2..Len(runs) : runs[i] = <<>>

\* no value of the field map holds a brace
PlainValues(data) == \A k \in 1..Len(data) : data[k][2] \in {<<>>, <<"X">>}

\* C11 as stated: after replace_placeholders every paragraph, top-level or in
\* a table cell, whose text holds a token of a key of the map (split across
\* runs or not) has the whole substituted text in its first run and every
\* other run empty, and every paragraph without such a token keeps its runs.
C11_TokenParagraphsCollapsed ==
    phase = "paragraph" =>
       /\ ~rendered.error
       /\ Len(AllParagraphs(rendered)) = Len(AllParagraphs(tmpl))
       /\ \A p \in 1..Len(AllParagraphs(tmpl)) :
             IF HasMapToken(ParaText(AllParagraphs(tmpl)[p]), fmap)
             THEN Collapsed(AllParagraphs(rendered)[p])
             ELSE AllParagraphs(rendered)[p] = AllParagraphs(tmpl)[p]

\* C11 amended: after replace_placeholders every paragraph, top-level or in a
\* table cell, whose text holds a token of a key of the map and is changed by
\* the substitution has the whole substituted text in its first run and every
\* other run empty; a paragraph without such a token, or whose text the
\* substitution leaves as it was, keeps its runs and their texts. When no
\* value holds a brace, a paragraph with a token is always changed.
C11_ChangedParagraphsCollapsed ==
    phase = "paragraph" =>
       /\ ~rendered.error
       /\ Len(AllParagraphs(rendered)) = Len(AllParagraphs(tmpl))
       /\ \A p \in 1..Len(AllParagraphs(tmpl)) :
             LET before == AllParagraphs(tmpl)[p]
                 after  == AllParagraphs(rendered)[p]
                 token  == HasMapToken(ParaText(before), fmap)
                 same   == ParaText(after) = ParaText(before)
             IN  /\ Len(after) = Len(before)
                 /\ (token /\ ~same) => Collapsed(after)
                 /\ (~token \/ same) => after = before
                 /\ ~token => same
                 /\ (token /\ PlainValues(fmap)) => ~same

\* C11 witness: the token of A, split over the two runs of a table-cell
\* paragraph, was replaced by X; the first run holds X and the second is empty.
C11_Witness ==
    /\ phase = "paragraph"
    /\ HasKey(fmap, <<"A">>)
    /\ tmpl.cells = << << <<"{", "{", "A">>, <<"}", "}">> >> >>
    /\ rendered.cells = << << <<"X">>, <<>> >> >>

----------------------------------------------------------------------------
(* Whole documents and the retention sweep (SpecSeq) *)

\* files c and d are artifacts of one generated document: same prefix, same id
SameDocument(c, d) ==
    /\ NameOf(c)[1] = NameOf(d)[1]
    /\ NameOf(c)[2] = NameOf(d)[2]

\* C12: after a sweep has completed, the artifacts of one document id that
\* were in the directory when the sweep listed it (the docx and, when there is
\* one, the pdf) are all retained or all deleted, also when a document has
\* only a docx because its conversion failed.
C12_WholeDocumentsKept ==
    \A s \in Requests :
       sweep[s].pc = "done" =>
          \A c \in sweep[s].listed, d \in sweep[s].listed :
             SameDocument(c, d) => (Present(c) <=> Present(d))

====
